---------------------------- MODULE Spec2Model ----------------------------
(***************************************************************************)
(* A model of src/script.js: the "Run Analysis" click handler (candidate   *)
(* selection, concurrent per-candidate analysis, Promise.allSettled fan-in *)
(* and result rendering), analyzeCandidate and callGemini.                 *)
(*                                                                         *)
(* JavaScript numbers are modelled as exact rationals in sign-magnitude    *)
(* form together with NaN and the two infinities (so -0, x/0 and 0/0       *)
(* behave as in IEEE 754); the rounding error of binary floating point is  *)
(* not modelled.  Strings that are parsed are tuples of one-character      *)
(* strings.                                                                *)
(*                                                                         *)
(* An action is one turn of the event loop: a click, or the arrival of a   *)
(* network response together with every continuation and microtask it      *)
(* makes runnable (a response and the reading of its body are one event).  *)
(* The specifications share the actions and differ in their inputs: Spec   *)
(* (the whole pipeline), SpecSelect (candidate selection over any          *)
(* threshold), SpecAnalyze (one candidate, any verdict), SpecEdit (a run   *)
(* while the user types into the settings inputs) and SpecLive (the        *)
(* pipeline with every request in flight answered in the end).             *)
(***************************************************************************)
EXTENDS Integers, Sequences, FiniteSets, TLC

-----------------------------------------------------------------------------
(* JavaScript numbers *)

RECURSIVE GCD(_, _)
GCD(a, b) == IF b = 0 THEN a ELSE GCD(b, a % b)

RECURSIVE Pow10(_)
Pow10(f) == IF f = 0 THEN 1 ELSE 10 * Pow10(f - 1)

NaN == [k |-> "nan", neg |-> FALSE, n |-> 0, d |-> 1]

Infinity(neg) == [k |-> "inf", neg |-> neg, n |-> 0, d |-> 1]

\* The finite number (-1)^neg * n / d in lowest terms (n >= 0, d > 0).
Fin(neg, n, d) ==
    LET g == GCD(n, d)
    IN  [k |-> "fin", neg |-> neg, n |-> n \div g, d |-> d \div g]

Num(i) == IF i < 0 THEN Fin(TRUE, -i, 1) ELSE Fin(FALSE, i, 1)

SignedN(a) == IF a.neg THEN -a.n ELSE a.n

IsNaN(a) == a.k = "nan"

\* x === 0 (true of +0 and of -0)
IsZero(a) == a.k = "fin" /\ a.n = 0

\* a > b
NumGt(a, b) ==
    IF a.k = "nan" \/ b.k = "nan" THEN FALSE
    ELSE IF a.k = "inf" THEN ~a.neg /\ ~(b.k = "inf" /\ ~b.neg)
    ELSE IF b.k = "inf" THEN b.neg
    ELSE SignedN(a) * b.d > SignedN(b) * a.d

\* a < b
NumLt(a, b) == NumGt(b, a)

\* unary minus
NumNeg(a) == IF a.k = "nan" THEN a ELSE [a EXCEPT !.neg = ~a.neg]

\* Math.abs
NumAbs(a) == IF a.k = "nan" THEN a ELSE [a EXCEPT !.neg = FALSE]

\* a + b
NumAdd(a, b) ==
    IF a.k = "nan" \/ b.k = "nan" THEN NaN
    ELSE IF a.k = "inf" /\ b.k = "inf"
         THEN IF a.neg = b.neg THEN a ELSE NaN
    ELSE IF a.k = "inf" THEN a
    ELSE IF b.k = "inf" THEN b
    ELSE LET g == GCD(a.d, b.d)
             s == SignedN(a) * (b.d \div g) + SignedN(b) * (a.d \div g)
             den == (a.d \div g) * b.d
         IN  IF s = 0 THEN Fin(a.n = 0 /\ b.n = 0 /\ a.neg /\ b.neg, 0, 1)
             ELSE IF s < 0 THEN Fin(TRUE, -s, den)
             ELSE Fin(FALSE, s, den)

\* a - b
NumSub(a, b) == NumAdd(a, NumNeg(b))

\* a * b
NumMul(a, b) ==
    IF a.k = "nan" \/ b.k = "nan" THEN NaN
    ELSE IF a.k = "inf" \/ b.k = "inf"
         THEN IF IsZero(a) \/ IsZero(b) THEN NaN ELSE Infinity(a.neg # b.neg)
    ELSE LET g1 == GCD(a.n, b.d)
             g2 == GCD(b.n, a.d)
         IN  Fin(a.neg # b.neg, (a.n \div g1) * (b.n \div g2),
                                (a.d \div g2) * (b.d \div g1))

\* a / b
NumDiv(a, b) ==
    IF a.k = "nan" \/ b.k = "nan" THEN NaN
    ELSE IF a.k = "inf"
         THEN IF b.k = "inf" THEN NaN ELSE Infinity(a.neg # b.neg)
    ELSE IF b.k = "inf" THEN Fin(a.neg # b.neg, 0, 1)
    ELSE IF b.n = 0
         THEN IF a.n = 0 THEN NaN ELSE Infinity(a.neg # b.neg)
    ELSE LET g1 == GCD(a.n, b.n)
             g2 == GCD(b.d, a.d)
         IN  Fin(a.neg # b.neg, (a.n \div g1) * (b.d \div g2),
                                (a.d \div g2) * (b.n \div g1))

\* Number.prototype.toFixed(digits): the decimal string with `digits`
\* fraction digits, held as its sign and its value in units of 10^-digits
\* (ties round away from zero); "NaN" and "Infinity" for the non-finite.
ToFixed(a, digits) ==
    IF a.k = "nan" THEN [k |-> "NaN", neg |-> FALSE, units |-> 0, digits |-> digits]
    ELSE IF a.k = "inf"
         THEN [k |-> "Infinity", neg |-> a.neg, units |-> 0, digits |-> digits]
    ELSE [k |-> "fixed", neg |-> a.neg /\ a.n > 0,
          units |-> (2 * a.n * Pow10(digits) + a.d) \div (2 * a.d),
          digits |-> digits]

-----------------------------------------------------------------------------
(* JavaScript values and parseFloat *)

JSUndefined == [t |-> "undefined", b |-> FALSE, num |-> NaN, str |-> <<>>]
JSNull      == [t |-> "null", b |-> FALSE, num |-> NaN, str |-> <<>>]
JSBool(b)   == [t |-> "boolean", b |-> b, num |-> NaN, str |-> <<>>]
JSNum(x)    == [t |-> "number", b |-> FALSE, num |-> x, str |-> <<>>]
JSStr(s)    == [t |-> "string", b |-> FALSE, num |-> NaN, str |-> s]

\* ToBoolean
Truthy(v) ==
    CASE v.t = "boolean" -> v.b
      [] v.t = "number"  -> ~IsNaN(v.num) /\ ~IsZero(v.num)
      [] v.t = "string"  -> Len(v.str) > 0
      [] OTHER           -> FALSE

Digits == {"0", "1", "2", "3", "4", "5", "6", "7", "8", "9"}

DigitVal(c) ==
    CASE c = "0" -> 0 [] c = "1" -> 1 [] c = "2" -> 2 [] c = "3" -> 3
      [] c = "4" -> 4 [] c = "5" -> 5 [] c = "6" -> 6 [] c = "7" -> 7
      [] c = "8" -> 8 [] c = "9" -> 9

\* the number of leading characters of s, from position i on, that are in set
RECURSIVE RunLen(_, _, _)
RunLen(s, i, set) ==
    IF i <= Len(s) /\ s[i] \in set THEN 1 + RunLen(s, i + 1, set) ELSE 0

\* the value of the digits s[i .. i+len-1]
RECURSIVE DigitsVal(_, _, _)
DigitsVal(s, i, len) ==
    IF len = 0 THEN 0
    ELSE 10 * DigitsVal(s, i, len - 1) + DigitVal(s[i + len - 1])

\* parseFloat of a string: leading white space is skipped, then the longest
\* prefix of the form [+-] digits [. digits] is converted; NaN when there is
\* none.  (Exponents and the literal "Infinity" are not in the alphabet used.)
ParseFloatStr(s) ==
    LET ws      == RunLen(s, 1, {" "})
        signed  == ws + 1 <= Len(s) /\ s[ws + 1] \in {"-", "+"}
        neg     == signed /\ s[ws + 1] = "-"
        i0      == IF signed THEN ws + 2 ELSE ws + 1
        intLen  == RunLen(s, i0, Digits)
        dot     == i0 + intLen <= Len(s) /\ s[i0 + intLen] = "."
        fracLen == IF dot THEN RunLen(s, i0 + intLen + 1, Digits) ELSE 0
    IN  IF intLen = 0 /\ fracLen = 0 THEN NaN
        ELSE Fin(neg,
                 DigitsVal(s, i0, intLen) * Pow10(fracLen)
                    + DigitsVal(s, i0 + intLen + 1, fracLen),
                 Pow10(fracLen))

\* parseFloat(v): v is converted to a string first, so a finite number parses
\* back to itself and null, undefined and booleans give NaN.
ParseFloat(v) ==
    CASE v.t = "number" -> v.num
      [] v.t = "string" -> ParseFloatStr(v.str)
      [] OTHER          -> NaN


\* String.prototype.trim
RECURSIVE TrailingSpaces(_, _)
TrailingSpaces(s, i) ==
    IF i >= 1 /\ s[i] = " " THEN 1 + TrailingSpaces(s, i - 1) ELSE 0

\* The string is taken as typed.
TrimNothing(s) == s

Trim(s) ==
    LET lead == RunLen(s, 1, {" "})
    IN  IF lead = Len(s) THEN <<>>
        ELSE SubSeq(s, lead + 1, Len(s) - TrailingSpaces(s, Len(s)))

-----------------------------------------------------------------------------
(* Program constants *)

MinCloses   == 50
PriceDigits == 5
LotDigits   == 4

DefaultRiskAmount        == <<"1", "0">>
DefaultRrRatio           == <<"3">>
DefaultCoinCount         == <<"5", "0">>
DefaultMomentumThreshold == <<"3">>

-----------------------------------------------------------------------------
(* Candidate selection (click handler, step 2) *)

BullishCandidates(topCryptos, threshold) ==
    SelectSeq(topCryptos,
              LAMBDA c : NumGt(c.price_change_percentage_24h, threshold))

BearishCandidates(topCryptos, threshold) ==
    SelectSeq(topCryptos,
              LAMBDA c : NumLt(c.price_change_percentage_24h, NumNeg(threshold)))

AllCandidates(topCryptos, threshold) ==
    LET bull == BullishCandidates(topCryptos, threshold)
        bear == BearishCandidates(topCryptos, threshold)
    IN  [i \in 1..Len(bull) |-> [coin |-> bull[i], direction |-> "bullish"]]
        \o [i \in 1..Len(bear) |-> [coin |-> bear[i], direction |-> "bearish"]]

-----------------------------------------------------------------------------
(* callGemini *)

\* What callGemini makes of the reasoning service's response: the value it
\* returns or the Error it throws.  A response is described by whether the
\* request reached the service (net), response.ok, and its text: absent
\* ("none"), without a ```json fence ("noFence"), a fenced block JSON.parse
\* rejects ("badJson"), or a fenced JSON object ("json", parsed as analysis).
Returned(value) == [threw |-> FALSE, message |-> "", value |-> value]

Thrown(message) == [threw |-> TRUE, message |-> message, value |-> JSNull]

\* A catch that returns an empty object where callGemini rethrows.
CallGeminiSwallowsParseError(resp) ==
    IF ~resp.net THEN Thrown("Failed to fetch")
    ELSE IF ~resp.ok THEN Thrown("Gemini API error")
    ELSE IF resp.text = "none" THEN Thrown("No response text from Gemini.")
    ELSE IF resp.text = "noFence"
         THEN Thrown("Gemini response did not contain a valid JSON code block.")
    ELSE Returned(resp.analysis)

CallGemini(resp) ==
    IF ~resp.net THEN Thrown("Failed to fetch")
    ELSE IF ~resp.ok THEN Thrown("Gemini API error")
    ELSE IF resp.text = "none" THEN Thrown("No response text from Gemini.")
    ELSE IF resp.text = "noFence"
         THEN Thrown("Gemini response did not contain a valid JSON code block.")
    ELSE IF resp.text = "badJson" THEN Thrown("Failed to parse JSON from Gemini")
    ELSE Returned(resp.analysis)

-----------------------------------------------------------------------------
(* analyzeCandidate: trade-parameter derivation *)

\* The take profit placed above the entry whatever the direction.
TakeProfitAlwaysAbove(direction, entry, slDistance, rrRatio) ==
    NumAdd(entry, NumMul(slDistance, rrRatio))

TakeProfit(direction, entry, slDistance, rrRatio) ==
    IF direction = "bullish"
    THEN NumAdd(entry, NumMul(slDistance, rrRatio))
    ELSE NumSub(entry, NumMul(slDistance, rrRatio))

LotSize(entry, slDistance, riskAmount) ==
    LET riskPct     == NumDiv(slDistance, entry)
        positionUSD == NumDiv(riskAmount, riskPct)
    IN  ToFixed(NumDiv(positionUSD, entry), LotDigits)

TradeDirection(direction) == IF direction = "bullish" THEN "Long" ELSE "Short"

\* if (analysis.isValid && analysis.entry && analysis.stopLoss)
VerdictUsable(analysis) ==
    Truthy(analysis.isValid) /\ Truthy(analysis.entry) /\ Truthy(analysis.stopLoss)

\* if (isNaN(entry) || isNaN(sl) || entry === 0 || sl === 0) return null
NumbersRejected(entry, sl) ==
    IsNaN(entry) \/ IsNaN(sl) \/ IsZero(entry) \/ IsZero(sl)

\* The value analyzeCandidate returns once callGemini has returned analysis:
\* a trade object, or null.  (name stands for the coin's name and symbol;
\* the rationale text is carried through unchanged and is left out.)
TradeOrNull(coin, direction, analysis, riskAmount, rrRatio) ==
    IF VerdictUsable(analysis)
    THEN LET entry == ParseFloat(analysis.entry)
             sl    == ParseFloat(analysis.stopLoss)
         IN  IF NumbersRejected(entry, sl) THEN JSNull
             ELSE LET slDistance == NumAbs(NumSub(entry, sl))
                  IN  [name      |-> coin.id,
                       entry     |-> ToFixed(entry, PriceDigits),
                       sl        |-> ToFixed(sl, PriceDigits),
                       tp        |-> ToFixed(TakeProfit(direction, entry,
                                                        slDistance, rrRatio),
                                             PriceDigits),
                       lotSize   |-> LotSize(entry, slDistance, riskAmount),
                       rr        |-> rrRatio,
                       direction |-> TradeDirection(direction)]
    ELSE JSNull

-----------------------------------------------------------------------------
(* State *)

VARIABLES
    localStorage,   \* the persisted settings (an unset key is held as <<>>)
    inputs,         \* the values of the settings inputs
    btnDisabled,    \* runAnalysisBtn.disabled
    btnText,        \* runAnalysisBtn's label
    outputDiv,      \* the children of the output element, in order
    pc,             \* where the click handler is
    topCryptos,     \* click handler locals
    threshold,
    allCandidates,
    analyzedCount,
    tasks,          \* the analyzeCandidate calls, one per candidate
    results,        \* the state of each entry of analysisPromises
    longTrades,
    shortTrades,
    arrival         \* history: the candidates in the order their analyses settled

vars == <<localStorage, inputs, btnDisabled, btnText, outputDiv, pc,
          topCryptos, threshold, allCandidates, analyzedCount, tasks,
          results, longTrades, shortTrades, arrival>>

\* getItem(key) || default, for every input
LoadSettings(ls) ==
    [geminiKey         |-> ls.geminiApiKey,
     riskAmount        |-> IF ls.riskAmount = <<>> THEN DefaultRiskAmount
                           ELSE ls.riskAmount,
     rrRatio           |-> IF ls.rrRatio = <<>> THEN DefaultRrRatio
                           ELSE ls.rrRatio,
     coinCount         |-> IF ls.coinCount = <<>> THEN DefaultCoinCount
                           ELSE ls.coinCount,
     momentumThreshold |-> IF ls.momentumThreshold = <<>>
                           THEN DefaultMomentumThreshold
                           ELSE ls.momentumThreshold]

SaveSettings(in) ==
    [geminiApiKey      |-> in.geminiKey,
     riskAmount        |-> in.riskAmount,
     rrRatio           |-> in.rrRatio,
     coinCount         |-> in.coinCount,
     momentumThreshold |-> in.momentumThreshold]

\* The label showLoading(message) / hideLoading() leave on the button.
IdleLabel == [label |-> "Run Analysis", k |-> 0, n |-> 0]

FetchingLabel == [label |-> "Fetching market data...", k |-> 0, n |-> 0]

AnalyzingLabel(k, n) == [label |-> "Analyzing k / n coins...", k |-> k, n |-> n]

\* The element logMessage(message, type) appends (type defaults to 'log').
LogElement(message, n, type) ==
    [cls   |-> IF type = "error" THEN "error-message" ELSE "log-message",
     text  |-> message, n |-> n, cards |-> <<>>]

SummaryHeader(text, n) ==
    [cls |-> "summary-header", text |-> text, n |-> n, cards |-> <<>>]

TradesContainer(trades) ==
    [cls |-> "trades-container", text |-> "", n |-> 0, cards |-> trades]

Pending == [status |-> "pending", value |-> JSNull, reason |-> ""]

Fulfilled(value) == [status |-> "fulfilled", value |-> value, reason |-> ""]

Rejected(message) == [status |-> "rejected", value |-> JSNull, reason |-> message]

\* The state the page is in once DOMContentLoaded has run loadSettings.
InitWith(stored) ==
    /\ localStorage \in stored
    /\ inputs = LoadSettings(localStorage)
    /\ btnDisabled = FALSE
    /\ btnText = IdleLabel
    /\ outputDiv = <<>>
    /\ pc = "ready"
    /\ topCryptos = <<>>
    /\ threshold = NaN
    /\ allCandidates = <<>>
    /\ analyzedCount = 0
    /\ tasks = <<>>
    /\ results = <<>>
    /\ longTrades = <<>>
    /\ shortTrades = <<>>
    /\ arrival = <<>>

-----------------------------------------------------------------------------
(* The click handler up to its first await *)

\* A disabled button dispatches no click.  With no key the handler saves the
\* settings, alerts and returns; otherwise it clears the output, shows the
\* loading state and requests the market list.
Click ==
    /\ ~btnDisabled
    /\ localStorage' = SaveSettings(inputs)
    /\ IF Trim(inputs.geminiKey) = <<>>
       THEN /\ pc' = "alerted"
            /\ UNCHANGED <<btnDisabled, btnText, outputDiv, topCryptos,
                           threshold, allCandidates, analyzedCount, tasks,
                           results, longTrades, shortTrades, arrival>>
       ELSE /\ pc' = "awaitMarkets"
            /\ outputDiv' = <<>>
            /\ btnDisabled' = TRUE
            /\ btnText' = FetchingLabel
            /\ topCryptos' = <<>>
            /\ threshold' = NaN
            /\ allCandidates' = <<>>
            /\ analyzedCount' = 0
            /\ tasks' = <<>>
            /\ results' = <<>>
            /\ longTrades' = <<>>
            /\ shortTrades' = <<>>
            /\ arrival' = <<>>
    /\ UNCHANGED inputs

\* The market request fails (fetch rejects, a non-ok status, or a body that
\* is not JSON): catch logs a global error and finally calls hideLoading.
MarketsFail(message) ==
    /\ pc = "awaitMarkets"
    /\ pc' = "globalError"
    /\ outputDiv' = Append(outputDiv,
                           LogElement("A global error occurred: " \o message,
                                      0, "error"))
    /\ btnDisabled' = FALSE
    /\ btnText' = IdleLabel
    /\ UNCHANGED <<localStorage, inputs, topCryptos, threshold, allCandidates,
                   analyzedCount, tasks, results, longTrades, shortTrades,
                   arrival>>

\* A response that has not arrived.
NoResponse == [net |-> FALSE, ok |-> FALSE]

\* An analysis that is created without its price-history request being issued.
StartTaskWithoutRequest(in) ==
    [pc          |-> "awaitChart",
     riskAmount  |-> ParseFloatStr(in.riskAmount),
     rrRatio     |-> ParseFloatStr(in.rrRatio),
     chartRes    |-> NoResponse,
     geminiRes   |-> NoResponse,
     analysis    |-> JSUndefined,
     chartCalls  |-> 0,
     geminiCalls |-> 0]

\* analyzeCandidate from its call to its first await: the two settings are
\* read and the price-history request is issued.
StartTask(in) ==
    [pc          |-> "awaitChart",
     riskAmount  |-> ParseFloatStr(in.riskAmount),
     rrRatio     |-> ParseFloatStr(in.rrRatio),
     chartRes    |-> NoResponse,
     geminiRes   |-> NoResponse,
     analysis    |-> JSUndefined,
     chartCalls  |-> 1,
     geminiCalls |-> 0]

\* The market list arrives: candidates are selected; with none the handler
\* logs and returns, otherwise every analysis is started.
MarketsOk(snapshots) ==
    /\ pc = "awaitMarkets"
    /\ topCryptos' = snapshots
    /\ threshold' = ParseFloatStr(inputs.momentumThreshold)
    /\ allCandidates' = AllCandidates(topCryptos', threshold')
    /\ IF Len(allCandidates') = 0
       THEN /\ outputDiv' = Append(outputDiv,
                  LogElement("No coins found matching the momentum threshold. Try widening your criteria.",
                             0, "error"))
            /\ btnDisabled' = FALSE
            /\ btnText' = IdleLabel
            /\ pc' = "noCandidates"
            /\ UNCHANGED <<analyzedCount, tasks, results>>
       ELSE /\ outputDiv' = Append(outputDiv,
                  LogElement("Found n candidates. Analyzing in parallel with Gemini AI...",
                             Len(allCandidates'), "log"))
            /\ btnDisabled' = TRUE
            /\ btnText' = AnalyzingLabel(0, Len(allCandidates'))
            /\ analyzedCount' = 0
            /\ tasks' = [i \in 1..Len(allCandidates') |-> StartTask(inputs)]
            /\ results' = [i \in 1..Len(allCandidates') |-> Pending]
            /\ pc' = "awaitAllSettled"
    /\ UNCHANGED <<localStorage, inputs, longTrades, shortTrades, arrival>>

-----------------------------------------------------------------------------
(* Promise.allSettled and the processing of its results (step 4) *)

\* Promise.all in place of Promise.allSettled: settled by the first rejection.
AllSettledAsAll(res) ==
    \/ \A i \in DOMAIN res : res[i].status = "fulfilled"
    \/ \E i \in DOMAIN res : res[i].status = "rejected"

\* An allSettled that resolves only when every promise has been fulfilled.
AllSettledWhenAllFulfilled(res) == \A i \in DOMAIN res : res[i].status = "fulfilled"

\* Promise.allSettled resolves once no promise is pending.
AllSettled(res) == \A i \in DOMAIN res : res[i].status # "pending"

\* The kept values in reverse order.
ValidTradesLastFirst(res) ==
    LET kept == SelectSeq(res, LAMBDA r : r.status = "fulfilled" /\ r.value # JSNull)
    IN  [i \in 1..Len(kept) |-> kept[Len(kept) + 1 - i].value]

\* results.filter(r => r.status === 'fulfilled' && r.value !== null)
\*        .map(r => r.value)
ValidTrades(res) ==
    LET kept == SelectSeq(res, LAMBDA r : r.status = "fulfilled" /\ r.value # JSNull)
    IN  [i \in 1..Len(kept) |-> kept[i].value]

LongTradesOf(validTrades) ==
    SelectSeq(validTrades, LAMBDA t : t.direction = "Long")

ShortTradesOf(validTrades) ==
    SelectSeq(validTrades, LAMBDA t : t.direction = "Short")

\* An error line for every result that is not a trade (skips included).
ErrorLinesForSkipsToo(res) ==
    LET failed == SelectSeq(res, LAMBDA r : r.status = "rejected" \/ r.value = JSNull)
    IN  [i \in 1..Len(failed) |-> LogElement(failed[i].reason, 0, "error")]

\* results.filter(r => r.status === 'rejected')
\*        .forEach(r => logMessage(r.reason.message, 'error'))
ErrorLines(res) ==
    LET failed == SelectSeq(res, LAMBDA r : r.status = "rejected")
    IN  [i \in 1..Len(failed) |-> LogElement(failed[i].reason, 0, "error")]

\* What step 4 leaves in the (cleared) output element.
Rendered(res) ==
    LET valid  == ValidTrades(res)
        longs  == LongTradesOf(valid)
        shorts == ShortTradesOf(valid)
    IN  (IF Len(longs) > 0
         THEN <<SummaryHeader("Valid Long Setups", Len(longs)),
                TradesContainer(longs)>>
         ELSE <<>>)
        \o (IF Len(shorts) > 0
            THEN <<SummaryHeader("Valid Short Setups", Len(shorts)),
                   TradesContainer(shorts)>>
            ELSE <<>>)
        \o (IF Len(valid) = 0
            THEN <<LogElement("Analysis complete. No high-confluence ICT setups found based on the current rules.",
                              0, "log")>>
            ELSE <<>>)
        \o ErrorLines(res)

\* A progress update that leaves the button enabled.
SettleEnablingButton(i, outcome) ==
    /\ results' = [results EXCEPT ![i] = outcome]
    /\ arrival' = Append(arrival, i)
    /\ analyzedCount' = IF outcome.status = "fulfilled"
                        THEN analyzedCount + 1 ELSE analyzedCount
    /\ IF AllSettled(results')
       THEN /\ longTrades' = LongTradesOf(ValidTrades(results'))
            /\ shortTrades' = ShortTradesOf(ValidTrades(results'))
            /\ outputDiv' = Rendered(results')
            /\ btnDisabled' = FALSE
            /\ btnText' = IdleLabel
            /\ pc' = "completed"
       ELSE /\ btnDisabled' = IF outcome.status = "fulfilled"
                              THEN FALSE ELSE btnDisabled
            /\ btnText' = IF outcome.status = "fulfilled"
                          THEN AnalyzingLabel(analyzedCount', Len(allCandidates))
                          ELSE btnText
            /\ UNCHANGED <<longTrades, shortTrades, outputDiv, pc>>

\* analysisPromises[i] settles with outcome.  A fulfilled one runs its
\* .then callback (count and label).  These are microtasks: when this was
\* the last pending promise, the handler resumes after allSettled in the
\* same turn, renders the results and, in finally, calls hideLoading.
Settle(i, outcome) ==
    /\ results' = [results EXCEPT ![i] = outcome]
    /\ arrival' = Append(arrival, i)
    /\ analyzedCount' = IF outcome.status = "fulfilled"
                        THEN analyzedCount + 1 ELSE analyzedCount
    /\ IF AllSettled(results')
       THEN /\ longTrades' = LongTradesOf(ValidTrades(results'))
            /\ shortTrades' = ShortTradesOf(ValidTrades(results'))
            /\ outputDiv' = Rendered(results')
            /\ btnDisabled' = FALSE
            /\ btnText' = IdleLabel
            /\ pc' = "completed"
       ELSE /\ btnDisabled' = IF outcome.status = "fulfilled"
                              THEN TRUE ELSE btnDisabled
            /\ btnText' = IF outcome.status = "fulfilled"
                          THEN AnalyzingLabel(analyzedCount', Len(allCandidates))
                          ELSE btnText
            /\ UNCHANGED <<longTrades, shortTrades, outputDiv, pc>>

-----------------------------------------------------------------------------
(* analyzeCandidate *)

\* The length of the series is not tested.
ChartProceedsWhateverLength(chart) == chart.net /\ chart.ok /\ chart.prices

\* The price-history response lets the analysis go on to callGemini: the
\* request reached the server, the status is ok, the body holds a prices
\* array and there are at least MinCloses closes.
ChartProceeds(chart) ==
    chart.net /\ chart.ok /\ chart.prices /\ chart.closes >= MinCloses

\* How analyzeCandidate ends otherwise: fetch rejects when the request does
\* not reach the server; a non-ok status returns null; a body without a
\* prices array throws; fewer than MinCloses closes returns null.
ChartStep(chart) ==
    IF ~chart.net THEN Thrown("Failed to fetch")
    ELSE IF ~chart.ok THEN Returned(JSNull)
    ELSE IF ~chart.prices THEN Thrown("chartData.prices is undefined")
    ELSE Returned(JSNull)

\* The price-history response of candidate i arrives.
ChartResponse(i, chart) ==
    /\ pc = "awaitAllSettled"
    /\ i \in DOMAIN tasks
    /\ tasks[i].pc = "awaitChart"
    /\ IF ChartProceeds(chart)
       THEN /\ tasks' = [tasks EXCEPT ![i].pc = "awaitGemini",
                                      ![i].chartRes = chart,
                                      ![i].geminiCalls = @ + 1]
            /\ UNCHANGED <<results, analyzedCount, longTrades, shortTrades,
                           outputDiv, btnDisabled, btnText, pc, arrival>>
       ELSE /\ tasks' = [tasks EXCEPT ![i].pc = "done",
                                      ![i].chartRes = chart]
            /\ Settle(i, IF ChartStep(chart).threw
                         THEN Rejected(ChartStep(chart).message)
                         ELSE Fulfilled(ChartStep(chart).value))
    /\ UNCHANGED <<localStorage, inputs, topCryptos, threshold, allCandidates>>

\* The reasoning service's response for candidate i arrives.
GeminiResponse(i, resp) ==
    /\ pc = "awaitAllSettled"
    /\ i \in DOMAIN tasks
    /\ tasks[i].pc = "awaitGemini"
    /\ LET call == CallGemini(resp)
       IN  IF call.threw
           THEN /\ tasks' = [tasks EXCEPT ![i].pc = "done",
                                          ![i].geminiRes = resp]
                /\ Settle(i, Rejected(call.message))
           ELSE /\ tasks' = [tasks EXCEPT ![i].pc = "done",
                                          ![i].geminiRes = resp,
                                          ![i].analysis = call.value]
                /\ Settle(i, Fulfilled(TradeOrNull(allCandidates[i].coin,
                                                   allCandidates[i].direction,
                                                   call.value,
                                                   tasks[i].riskAmount,
                                                   tasks[i].rrRatio)))
    /\ UNCHANGED <<localStorage, inputs, topCryptos, threshold, allCandidates>>

-----------------------------------------------------------------------------
(* Inputs *)

MaxCoins == 2

\* The market list: n coins, coin i with id i and one of the given 24h changes.
SnapshotLists(pcts, max) ==
    UNION {{[i \in 1..n |-> [id |-> i, price_change_percentage_24h |-> f[i]]] :
               f \in [1..n -> pcts]} : n \in 0..max}

NoAnalysis == [isValid |-> JSUndefined, entry |-> JSUndefined, stopLoss |-> JSUndefined]

Verdict(isValid, entry, stopLoss) ==
    [isValid |-> isValid, entry |-> entry, stopLoss |-> stopLoss]

\* The price-history responses: unreachable, HTTP error, a body without
\* prices, and series one short of and exactly at the minimum length.
ChartResponses ==
    {[net |-> FALSE, ok |-> FALSE, prices |-> FALSE, closes |-> 0],
     [net |-> TRUE, ok |-> FALSE, prices |-> FALSE, closes |-> 0],
     [net |-> TRUE, ok |-> TRUE, prices |-> FALSE, closes |-> 0]}
    \cup {[net |-> TRUE, ok |-> TRUE, prices |-> TRUE, closes |-> c] :
             c \in {MinCloses - 1, MinCloses}}

\* The reasoning service's failures, one per throw of callGemini.
GeminiFailures ==
    {[net |-> FALSE, ok |-> FALSE, text |-> "none", analysis |-> NoAnalysis],
     [net |-> TRUE, ok |-> FALSE, text |-> "none", analysis |-> NoAnalysis],
     [net |-> TRUE, ok |-> TRUE, text |-> "none", analysis |-> NoAnalysis],
     [net |-> TRUE, ok |-> TRUE, text |-> "noFence", analysis |-> NoAnalysis],
     [net |-> TRUE, ok |-> TRUE, text |-> "badJson", analysis |-> NoAnalysis]}

GeminiVerdicts(verdicts) ==
    {[net |-> TRUE, ok |-> TRUE, text |-> "json", analysis |-> v] : v \in verdicts}

MarketsFailures == {"Failed to fetch", "CoinGecko API error"}

Settings(keys, risks, rrs, thresholds) ==
    {[geminiApiKey |-> k, riskAmount |-> r, rrRatio |-> q, coinCount |-> <<>>,
      momentumThreshold |-> t] :
        k \in keys, r \in risks, q \in rrs, t \in thresholds}

-----------------------------------------------------------------------------
(* The pipeline: up to MaxCoins coins analysed concurrently *)

PipelineSettings ==
    Settings({<<>>, <<" ">>, <<"k">>}, {<<>>}, {<<>>, <<"2", ".", "5">>}, {<<>>})

PipelinePcts == {Num(5), Num(-5), Num(3)}

PipelineVerdicts ==
    {Verdict(JSBool(TRUE), JSNum(Num(100)), JSNum(Num(95))),
     Verdict(JSBool(TRUE), JSNum(Num(100)), JSNum(Num(150))),
     Verdict(JSBool(TRUE), JSNum(Num(100)), JSNum(Num(100))),
     Verdict(JSBool(TRUE), JSNum(Num(-100)), JSNum(Num(-95))),
     Verdict(JSBool(TRUE), JSStr(<<"1", "0", "0", ".", "5">>),
                           JSStr(<<"9", "5", ".", "2", "5">>)),
     Verdict(JSBool(TRUE), JSNum(Num(0)), JSNum(Num(95))),
     Verdict(JSBool(TRUE), JSNum(Num(100)), JSUndefined),
     Verdict(JSBool(FALSE), JSNull, JSNull)}

Init == InitWith(PipelineSettings)

Next ==
    \/ Click
    \/ \E m \in MarketsFailures : MarketsFail(m)
    \/ \E s \in SnapshotLists(PipelinePcts, MaxCoins) : MarketsOk(s)
    \/ \E i \in DOMAIN tasks, c \in ChartResponses : ChartResponse(i, c)
    \/ \E i \in DOMAIN tasks,
          r \in GeminiFailures \cup GeminiVerdicts(PipelineVerdicts) :
              GeminiResponse(i, r)

Spec == Init /\ [][Next]_vars

-----------------------------------------------------------------------------
(* Candidate selection alone: any threshold, up to MaxSnapshots coins *)

MaxSnapshots == 3

SelectSettings ==
    Settings({<<"k">>}, {<<>>}, {<<>>},
             {<<>>, <<"0">>, <<"-", "3">>, <<"2", ".", "5">>, <<"x">>})

SelectPcts ==
    {Num(-5), Num(-3), Fin(TRUE, 5, 2), Num(0), Fin(FALSE, 5, 2), Num(3), Num(5)}

InitSelect == InitWith(SelectSettings)

NextSelect ==
    \/ Click
    \/ \E s \in SnapshotLists(SelectPcts, MaxSnapshots) : MarketsOk(s)

SpecSelect == InitSelect /\ [][NextSelect]_vars

-----------------------------------------------------------------------------
(* One candidate's analysis alone: any verdict, several settings *)

AnalyzeSettings ==
    Settings({<<"k">>}, {<<>>, <<"1">>, <<"2", ".", "5">>},
             {<<>>, <<"1">>, <<"2", ".", "5">>}, {<<>>})

AnalyzePcts == {Num(5), Num(-5)}

AnalyzeValues ==
    {JSNum(Num(100)), JSNum(Num(95)), JSNum(Num(150)), JSNum(Num(0)),
     JSNum(Num(-100)), JSNull, JSUndefined,
     JSStr(<<"1", "0", "0">>), JSStr(<<"a", "b", "c">>), JSStr(<<"0">>),
     JSStr(<<"9", "5", ".", "5", "x">>)}

AnalyzeVerdicts ==
    {Verdict(v, e, sl) :
        v \in {JSBool(TRUE), JSBool(FALSE), JSUndefined, JSStr(<<"n", "o">>)},
        e \in AnalyzeValues, sl \in AnalyzeValues}

InitAnalyze == InitWith(AnalyzeSettings)

NextAnalyze ==
    \/ Click
    \/ \E s \in SnapshotLists(AnalyzePcts, 1) : MarketsOk(s)
    \/ \E i \in DOMAIN tasks, c \in ChartResponses : ChartResponse(i, c)
    \/ \E i \in DOMAIN tasks,
          r \in GeminiFailures \cup GeminiVerdicts(AnalyzeVerdicts) :
              GeminiResponse(i, r)

SpecAnalyze == InitAnalyze /\ [][NextAnalyze]_vars

-----------------------------------------------------------------------------
(* A run while the user edits the settings *)

\* The user types value into one of the settings inputs.  The inputs are
\* never disabled, so this can happen at any time, a run in progress or not.
EditInput(field, value) ==
    /\ inputs' = [inputs EXCEPT ![field] = value]
    /\ UNCHANGED <<localStorage, btnDisabled, btnText, outputDiv, pc,
                   topCryptos, threshold, allCandidates, analyzedCount, tasks,
                   results, longTrades, shortTrades, arrival>>

EditSettings == Settings({<<>>, <<"k">>}, {<<>>}, {<<>>}, {<<>>})

\* what the user may type into each input
EditValues ==
    [geminiKey         |-> {<<>>, <<" ">>, <<"k">>},
     riskAmount        |-> {<<"1", "0">>, <<"2", "0">>},
     rrRatio           |-> {<<"3">>, <<"2">>},
     momentumThreshold |-> {<<"3">>, <<"6">>}]

EditPcts == {Num(5), Num(-5)}

EditVerdicts ==
    {Verdict(JSBool(TRUE), JSNum(Num(100)), JSNum(Num(95))),
     Verdict(JSBool(FALSE), JSNull, JSNull)}

InitEdit == InitWith(EditSettings)

NextEdit ==
    \/ Click
    \/ \E field \in DOMAIN EditValues :
           \E value \in EditValues[field] : EditInput(field, value)
    \/ \E m \in MarketsFailures : MarketsFail(m)
    \/ \E s \in SnapshotLists(EditPcts, 1) : MarketsOk(s)
    \/ \E i \in DOMAIN tasks, c \in ChartResponses : ChartResponse(i, c)
    \/ \E i \in DOMAIN tasks,
          r \in GeminiFailures \cup GeminiVerdicts(EditVerdicts) :
              GeminiResponse(i, r)

SpecEdit == InitEdit /\ [][NextEdit]_vars

-----------------------------------------------------------------------------
(* The pipeline when every request is answered in the end *)

LiveSettings == Settings({<<>>, <<"k">>}, {<<>>}, {<<>>}, {<<>>})

LiveVerdicts ==
    {Verdict(JSBool(TRUE), JSNum(Num(100)), JSNum(Num(95))),
     Verdict(JSBool(FALSE), JSNull, JSNull)}

InitLive == InitWith(LiveSettings)

\* the responses to the market request, and to the requests of candidate i
MarketsResponse ==
    \/ \E m \in MarketsFailures : MarketsFail(m)
    \/ \E s \in SnapshotLists(PipelinePcts, MaxCoins) : MarketsOk(s)

ChartResponseOf(i) == \E c \in ChartResponses : ChartResponse(i, c)

GeminiResponseOf(i) ==
    \E r \in GeminiFailures \cup GeminiVerdicts(LiveVerdicts) : GeminiResponse(i, r)

NextLive ==
    \/ Click
    \/ MarketsResponse
    \/ \E i \in 1..MaxCoins : ChartResponseOf(i)
    \/ \E i \in 1..MaxCoins : GeminiResponseOf(i)

\* Every request in flight is answered in the end (the browser settles a
\* fetch with a response or a network error).
RequestsSettle ==
    /\ WF_vars(MarketsResponse)
    /\ \A i \in 1..MaxCoins :
           WF_vars(ChartResponseOf(i)) /\ WF_vars(GeminiResponseOf(i))

SpecLive == InitLive /\ [][NextLive]_vars /\ RequestsSettle

-----------------------------------------------------------------------------
(* Properties *)

\* a and b are the same number (+0 and -0 are)
NumEq(a, b) == ~IsNaN(a) /\ ~IsNaN(b) /\ ~NumGt(a, b) /\ ~NumGt(b, a)

Range(seq) == {seq[k] : k \in DOMAIN seq}

IsPlan(r) == r.status = "fulfilled" /\ r.value # JSNull

IsSkipped(r) == r.status = "fulfilled" /\ r.value = JSNull

IsFailed(r) == r.status = "rejected"

\* the error lines the output shows
ErrorsShown == SelectSeq(outputDiv, LAMBDA e : e.cls = "error-message")

\* how many trades of the final partitions belong to candidate i
PlansOf(i) ==
    LET mine(t) == t.name = allCandidates[i].coin.id
    IN  Cardinality({k \in DOMAIN longTrades : mine(longTrades[k])})
        + Cardinality({k \in DOMAIN shortTrades : mine(shortTrades[k])})

\* C1: a rejected analysis never aborts the batch: the run goes on waiting,
\* no result is produced while an analysis is pending, and once the results
\* are produced every candidate whose analysis gave a trade is in longs or
\* shorts.
C1_FailureNeverAbortsBatch ==
    /\ (\E i \in DOMAIN results : IsFailed(results[i]))
           => pc \in {"awaitAllSettled", "completed"}
    /\ (\E i \in DOMAIN results : results[i].status = "pending")
           => /\ pc = "awaitAllSettled"
              /\ longTrades = <<>> /\ shortTrades = <<>>
              /\ \A k \in DOMAIN outputDiv : outputDiv[k].cls = "log-message"
    /\ pc = "completed"
           => \A i \in DOMAIN results :
                  IsPlan(results[i])
                      => results[i].value \in Range(longTrades) \cup Range(shortTrades)

C1_Witness ==
    /\ pc = "completed"
    /\ \E i, j \in DOMAIN results :
           /\ IsFailed(results[i])
           /\ IsPlan(results[j])
           /\ results[j].value \in Range(longTrades)

\* C2: after a run over N candidates each candidate is in exactly one
\* bucket: one trade in longs or shorts, one error, or nothing; a skip adds
\* neither an error nor a trade, a failure adds no trade, and
\* |longs| + |shorts| + |errors| <= N.
C2_OneBucketPerCandidate ==
    pc = "completed" =>
        LET N == Len(allCandidates)
            count(P(_)) == Cardinality({i \in DOMAIN results : P(results[i])})
        IN  /\ Len(results) = N
            /\ \A i \in DOMAIN results :
                   PlansOf(i) = IF IsPlan(results[i]) THEN 1 ELSE 0
            /\ Len(longTrades) + Len(shortTrades) = count(IsPlan)
            /\ Len(ErrorsShown) = count(IsFailed)
            /\ count(IsPlan) + count(IsFailed) + count(IsSkipped) = N
            /\ Len(longTrades) + Len(shortTrades) + Len(ErrorsShown) <= N

C2_Witness ==
    /\ pc = "completed"
    /\ \E i, j \in DOMAIN results :
           IsSkipped(results[i]) /\ IsFailed(results[j])
    /\ Len(ErrorsShown) = 1

\* the price-history request of task i met a transport failure
ChartTransportFailure(i) ==
    /\ tasks[i].pc # "awaitChart"
    /\ ~tasks[i].chartRes.net \/ ~tasks[i].chartRes.ok

\* C3: a candidate whose price-history fetch fails in transport (the request
\* fails at network level, or the status is not a success) is Skipped: no
\* trade, no error entry, and no call of the reasoning service.
C3_ChartFailureIsSkipped ==
    \A i \in DOMAIN tasks :
        ChartTransportFailure(i)
            => /\ IsSkipped(results[i])
               /\ tasks[i].geminiCalls = 0
               /\ pc = "completed"
                      => Len(ErrorsShown) = Cardinality({j \in DOMAIN results \ {i} :
                                                            IsFailed(results[j])})

\* the reasoning-service call of task i failed
GeminiCallFailed(i) ==
    /\ tasks[i].pc = "done"
    /\ tasks[i].geminiCalls = 1
    /\ \/ ~tasks[i].geminiRes.net
       \/ ~tasks[i].geminiRes.ok
       \/ tasks[i].geminiRes.text \in {"none", "noFence", "badJson"}

\* the place of candidate i's error line among the error lines
ErrorRank(i) == Cardinality({j \in 1..i : IsFailed(results[j])})

\* C4: a candidate whose reasoning-service call fails (transport failure,
\* missing text, no fenced block, unparseable block) is Failed with a reason:
\* exactly one error line is shown for it and it has no trade in longs or
\* shorts.
C4_GeminiFailureIsFailed ==
    \A i \in DOMAIN tasks :
        GeminiCallFailed(i)
            => /\ IsFailed(results[i])
               /\ results[i].reason # ""
               /\ pc = "completed"
                      => /\ Len(ErrorsShown)
                               = Cardinality({j \in DOMAIN results : IsFailed(results[j])})
                         /\ ErrorsShown[ErrorRank(i)].text = results[i].reason
                         /\ PlansOf(i) = 0

C4_Witness ==
    /\ pc = "completed"
    /\ \E i, j \in DOMAIN tasks :
           /\ GeminiCallFailed(i)
           /\ tasks[i].geminiRes.text = "badJson"
           /\ IsFailed(results[i])
           /\ IsPlan(results[j])

\* the numbers analyzeCandidate parsed from task i's verdict
EntryOf(i) == ParseFloat(tasks[i].analysis.entry)

StopLossOf(i) == ParseFloat(tasks[i].analysis.stopLoss)

StopDistanceOf(i) == NumAbs(NumSub(EntryOf(i), StopLossOf(i)))

\* C5: no emitted trade has its stop loss equal to its entry: a verdict with
\* isValid = true and entry = stopLoss (non-zero numbers) is Skipped.
C5_NoZeroDistanceStop ==
    \A i \in DOMAIN results :
        /\ IsPlan(results[i]) => results[i].value.sl # results[i].value.entry
        /\ ( /\ tasks[i].pc = "done"
             /\ tasks[i].geminiCalls = 1
             /\ results[i].status = "fulfilled"
             /\ tasks[i].analysis.isValid = JSBool(TRUE)
             /\ tasks[i].analysis.entry.t = "number"
             /\ tasks[i].analysis.stopLoss.t = "number"
             /\ ~IsZero(EntryOf(i))
             /\ NumEq(EntryOf(i), StopLossOf(i)) )
               => IsSkipped(results[i])

\* a displayed amount that compares above zero ("Infinity" does, "NaN" not)
Positive(x) == ~x.neg /\ (x.k = "Infinity" \/ (x.k = "fixed" /\ x.units > 0))

\* C6: every emitted trade has entry, stop loss, take profit and lot size
\* strictly positive, for every verdict and every positive riskAmount and
\* rrRatio.
C6_PositiveAmounts ==
    \A i \in DOMAIN results :
        IsPlan(results[i])
            => /\ Positive(results[i].value.entry)
               /\ Positive(results[i].value.sl)
               /\ Positive(results[i].value.tp)
               /\ Positive(results[i].value.lotSize)

\* C7: a trade of a Bullish candidate is Long with take profit
\* entry + |entry - stopLoss| * rrRatio, a trade of a Bearish candidate is
\* Short with take profit entry - |entry - stopLoss| * rrRatio (shown with
\* PriceDigits decimals); longs holds only trades of Bullish candidates and
\* shorts only trades of Bearish candidates.
C7_DirectionAndTakeProfit ==
    /\ \A i \in DOMAIN results :
           IsPlan(results[i]) =>
               LET move == NumMul(StopDistanceOf(i), tasks[i].rrRatio)
                   plan == results[i].value
               IN  /\ allCandidates[i].direction = "bullish"
                          => /\ plan.direction = "Long"
                             /\ plan.tp = ToFixed(NumAdd(EntryOf(i), move), PriceDigits)
                   /\ allCandidates[i].direction = "bearish"
                          => /\ plan.direction = "Short"
                             /\ plan.tp = ToFixed(NumSub(EntryOf(i), move), PriceDigits)
    /\ \A k \in DOMAIN longTrades :
           \E i \in DOMAIN results :
               /\ IsPlan(results[i]) /\ results[i].value = longTrades[k]
               /\ longTrades[k].name = allCandidates[i].coin.id
               /\ allCandidates[i].direction = "bullish"
    /\ \A k \in DOMAIN shortTrades :
           \E i \in DOMAIN results :
               /\ IsPlan(results[i]) /\ results[i].value = shortTrades[k]
               /\ shortTrades[k].name = allCandidates[i].coin.id
               /\ allCandidates[i].direction = "bearish"

C7_Witness ==
    /\ pc = "completed"
    /\ \E i, j \in DOMAIN results :
           /\ IsPlan(results[i]) /\ allCandidates[i].direction = "bullish"
           /\ IsPlan(results[j]) /\ allCandidates[j].direction = "bearish"
           /\ results[i].value \in Range(longTrades)
           /\ results[j].value \in Range(shortTrades)
           /\ ~IsZero(StopDistanceOf(j))
           /\ results[j].value.tp # results[j].value.entry

\* C8: every emitted trade has lot size
\* (riskAmount / (|entry - stopLoss| / entry)) / entry shown with LotDigits
\* decimals, so that (before rounding) lot size * |entry - stopLoss| is the
\* risk amount; entry 100, stop loss 95 and risk 10 give 2.0000.
C8_LotSizeRisksRiskAmount ==
    \A i \in DOMAIN results :
        IsPlan(results[i]) =>
            LET riskPct == NumDiv(StopDistanceOf(i), EntryOf(i))
                lot     == NumDiv(NumDiv(tasks[i].riskAmount, riskPct), EntryOf(i))
            IN  /\ results[i].value.lotSize = ToFixed(lot, LotDigits)
                /\ NumEq(NumMul(lot, StopDistanceOf(i)), tasks[i].riskAmount)
                /\ ( /\ NumEq(EntryOf(i), Num(100))
                     /\ NumEq(StopLossOf(i), Num(95))
                     /\ NumEq(tasks[i].riskAmount, Num(10)) )
                       => results[i].value.lotSize.units = 2 * Pow10(LotDigits)

Pct(c) == c.price_change_percentage_24h

CandidateIs(c, direction) ==
    \E i \in DOMAIN allCandidates :
        allCandidates[i].coin = c /\ allCandidates[i].direction = direction

\* C9: whatever the threshold (zero and negative ones included), no snapshot
\* is both a Bullish and a Bearish candidate, and no snapshot appears twice
\* in the candidate list.
C9_ExclusiveDirections ==
    /\ \A k \in DOMAIN topCryptos :
           ~(CandidateIs(topCryptos[k], "bullish")
             /\ CandidateIs(topCryptos[k], "bearish"))
    /\ \A i, j \in DOMAIN allCandidates :
           i # j => allCandidates[i].coin # allCandidates[j].coin

\* C10: a snapshot is a Bullish candidate iff its change is above the
\* threshold and a Bearish one iff it is below minus the threshold; a
\* snapshot exactly at plus or minus the threshold is no candidate; the list
\* is the Bullish candidates in input order followed by the Bearish ones in
\* input order; and selecting again on the same input gives the same list.
C10_SelectionReference ==
    /\ \A k \in DOMAIN topCryptos :
           LET c == topCryptos[k]
           IN  /\ CandidateIs(c, "bullish") <=> NumGt(Pct(c), threshold)
               /\ CandidateIs(c, "bearish") <=> NumLt(Pct(c), NumNeg(threshold))
               /\ (NumEq(Pct(c), threshold) \/ NumEq(Pct(c), NumNeg(threshold)))
                      => ~CandidateIs(c, "bullish") /\ ~CandidateIs(c, "bearish")
    /\ \A i, j \in DOMAIN allCandidates :
           i < j =>
               /\ allCandidates[i].direction = "bearish"
                      => allCandidates[j].direction = "bearish"
               /\ allCandidates[i].direction = allCandidates[j].direction
                      => allCandidates[i].coin.id < allCandidates[j].coin.id
    /\ AllCandidates(topCryptos, threshold) = allCandidates

\* the reasoning service answered task i with a verdict callGemini returned
VerdictReceived(i) ==
    /\ tasks[i].pc = "done"
    /\ tasks[i].geminiCalls = 1
    /\ ~CallGemini(tasks[i].geminiRes).threw

\* v is a number, or a string that is a decimal numeral from end to end
IsNumeric(v) ==
    \/ v.t = "number" /\ ~IsNaN(v.num)
    \/ /\ v.t = "string"
       /\ ~IsNaN(ParseFloatStr(v.str))
       /\ \A k \in DOMAIN v.str : v.str[k] \in Digits \cup {".", "-", "+"}

\* v is a usable price: present, numeric and not zero
IsPrice(v) == IsNumeric(v) /\ ~IsZero(ParseFloat(v))

\* C11: a trade is emitted only for a verdict with isValid = true whose entry
\* and stopLoss are present, numeric and non-zero; a verdict with
\* isValid = false, or whose entry or stopLoss is missing, null, non-numeric
\* or zero, is Skipped: no trade, and never Failed.
C11_PlanOnlyForValidVerdict ==
    \A i \in DOMAIN results :
        /\ IsPlan(results[i])
               => /\ tasks[i].analysis.isValid = JSBool(TRUE)
                  /\ IsPrice(tasks[i].analysis.entry)
                  /\ IsPrice(tasks[i].analysis.stopLoss)
        /\ ( /\ VerdictReceived(i)
             /\ \/ tasks[i].analysis.isValid = JSBool(FALSE)
                \/ ~IsPrice(tasks[i].analysis.entry)
                \/ ~IsPrice(tasks[i].analysis.stopLoss) )
               => IsSkipped(results[i])

\* the price-history response of task i was a series of closes
SeriesReceived(i) ==
    /\ tasks[i].pc # "awaitChart"
    /\ tasks[i].chartRes.net /\ tasks[i].chartRes.ok /\ tasks[i].chartRes.prices

\* C12: for every candidate of a run the price-history request is issued
\* exactly once and the reasoning service is called at most once, only after
\* the price-history response brought a series of at least MinCloses closes;
\* a shorter series is Skipped without a reasoning call, a series of
\* MinCloses closes leads to exactly one, and nothing is requested again
\* after a failure.
C12_SingleOrderedCalls ==
    /\ Len(tasks) = Len(results)
    /\ \A i \in DOMAIN tasks :
           /\ tasks[i].chartCalls = 1
           /\ tasks[i].geminiCalls \in {0, 1}
           /\ tasks[i].geminiCalls = 1
                  <=> SeriesReceived(i) /\ tasks[i].chartRes.closes >= MinCloses
           /\ (SeriesReceived(i) /\ tasks[i].chartRes.closes < MinCloses)
                  => IsSkipped(results[i])
           /\ tasks[i].pc = "awaitGemini" => results[i].status = "pending"
           /\ tasks[i].pc = "done" <=> results[i].status # "pending"

C12_Witness ==
    \E i, j \in DOMAIN tasks :
        /\ SeriesReceived(i) /\ tasks[i].chartRes.closes = MinCloses - 1
        /\ IsSkipped(results[i]) /\ tasks[i].geminiCalls = 0
        /\ SeriesReceived(j) /\ tasks[j].chartRes.closes = MinCloses
        /\ IsFailed(results[j])
        /\ tasks[j].chartCalls = 1 /\ tasks[j].geminiCalls = 1

\* the key input holds no credential: nothing, or white space only
KeyMissing == \A k \in DOMAIN inputs.geminiKey : inputs.geminiKey[k] = " "

\* C13: with the credential missing (empty once trimmed) a trigger is
\* answered by the alert alone: no market, price-history or reasoning
\* request is issued, no analysis is started, the output is left as it was
\* and the run control is not put into the loading (disabled) state.
C13_NoKeyNoActivity ==
    [][(~btnDisabled /\ KeyMissing)
          => /\ pc' # pc => pc' = "alerted"
             /\ ~btnDisabled'
             /\ btnText' = IdleLabel
             /\ UNCHANGED <<outputDiv, topCryptos, threshold, allCandidates,
                            analyzedCount, tasks, results, longTrades,
                            shortTrades, arrival>>]_vars

C13_Witness ==
    /\ pc = "alerted"
    /\ KeyMissing
    /\ inputs.geminiKey # <<>>
    /\ localStorage.geminiApiKey = inputs.geminiKey
    /\ ~btnDisabled
    /\ tasks # <<>>

\* the informational lines the output shows
InfosShown == SelectSeq(outputDiv, LAMBDA e : e.cls = "log-message")

\* C14: a run whose candidate list is empty ends at once, with no
\* price-history or reasoning request, and reports it as an informational
\* message, not as an error; a run that ends with no trade reports an
\* informational message too.
C14_EmptyIsInformational ==
    /\ pc = "noCandidates"
           => /\ allCandidates = <<>>
              /\ tasks = <<>> /\ results = <<>>
              /\ Len(InfosShown) = 1
              /\ ErrorsShown = <<>>
    /\ (pc = "completed" /\ longTrades = <<>> /\ shortTrades = <<>>)
           => Len(InfosShown) = 1

\* the partition candidate i's trade belongs to, and the trade's place in it
PartitionOf(i) ==
    IF allCandidates[i].direction = "bullish" THEN longTrades ELSE shortTrades

PlaceOf(i) ==
    CHOOSE k \in DOMAIN PartitionOf(i) :
        PartitionOf(i)[k].name = allCandidates[i].coin.id

\* candidates i and j both gave a trade, of the same direction
SamePartition(i, j) ==
    /\ IsPlan(results[i]) /\ IsPlan(results[j])
    /\ allCandidates[i].direction = allCandidates[j].direction

\* C15 (as claimed): within longs and within shorts the trades are in the
\* order in which their analyses resolved: if candidate A's analysis resolved
\* before candidate B's and both gave trades of the same direction, A's
\* trade precedes B's, even when B precedes A in the candidate list.
C15_ArrivalOrder ==
    pc = "completed" =>
        \A a, b \in DOMAIN arrival :
            (a < b /\ SamePartition(arrival[a], arrival[b]))
                => PlaceOf(arrival[a]) < PlaceOf(arrival[b])

\* C15 (amended): within longs and within shorts the trades are in the order
\* of their candidates in the candidate list, whatever the order in which
\* the analyses resolved: if A precedes B in the list and both gave trades of
\* the same direction, A's trade precedes B's, even when B resolved first.
C15_CandidateOrder ==
    pc = "completed" =>
        /\ Len(arrival) = Len(allCandidates)
        /\ Range(arrival) = DOMAIN allCandidates
        /\ \A i, j \in DOMAIN allCandidates :
               (i < j /\ SamePartition(i, j)) => PlaceOf(i) < PlaceOf(j)

C15_Witness ==
    /\ pc = "completed"
    /\ arrival = <<2, 1>>
    /\ SamePartition(1, 2)
    /\ longTrades = <<results[1].value, results[2].value>>
    /\ results[1].value # results[2].value

\* how many analyses of the run have settled, whatever their outcome
SettledCount == Cardinality({i \in DOMAIN results : results[i].status # "pending"})

\* C16: the progress count goes up by one each time a candidate's outcome
\* resolves, whatever the outcome (trade, Skipped or Failed): it is the
\* number of settled analyses, never above the number of candidates, the
\* label shows it while the run waits, and once all N analyses have settled
\* the last count reported is N.
C16_ProgressCountsEveryOutcome ==
    pc \in {"awaitAllSettled", "completed"} =>
        /\ analyzedCount = SettledCount
        /\ analyzedCount <= Len(allCandidates)
        /\ (pc = "awaitAllSettled" /\ btnText # AnalyzingLabel(0, Len(allCandidates)))
               => btnText = AnalyzingLabel(SettledCount, Len(allCandidates))
        /\ pc = "completed" => analyzedCount = Len(allCandidates)

\* C17: the analyses of a run are all launched without waiting for one
\* another: from the moment the run has its N candidates, the price-history
\* request of every one of them has been issued, before any analysis has
\* settled, so that N requests can be in flight at once; and the run goes on
\* (no result, control disabled) until all N have settled.
C17_AllLaunchedAtOnce ==
    /\ pc = "awaitAllSettled"
           => /\ Len(tasks) = Len(allCandidates)
              /\ Len(results) = Len(allCandidates)
              /\ \A i \in DOMAIN tasks : tasks[i].chartCalls = 1
              /\ arrival = <<>>
                     => \A i \in DOMAIN tasks :
                            /\ results[i].status = "pending"
                            /\ tasks[i].pc \in {"awaitChart", "awaitGemini"}
    /\ (\E i \in DOMAIN results : results[i].status = "pending")
           => /\ pc = "awaitAllSettled"
              /\ btnDisabled
              /\ longTrades = <<>> /\ shortTrades = <<>>
    /\ pc = "completed"
           => /\ Len(arrival) = Len(allCandidates)
              /\ \A i \in DOMAIN allCandidates : results[i].status # "pending"

C17_Witness ==
    /\ pc = "awaitAllSettled"
    /\ Len(allCandidates) = 2
    /\ arrival = <<>>
    /\ \A i \in DOMAIN tasks :
           tasks[i].pc = "awaitChart" /\ tasks[i].chartCalls = 1

\* a run is in progress: the handler is waiting for the market list or for
\* the analyses
RunInProgress == pc \in {"awaitMarkets", "awaitAllSettled"}

\* C18: at most one run is in progress at any time: from the start of a run
\* with a credential until its end the run control is disabled and shows a
\* loading label, every progress update included, so that no second trigger
\* can be handled while the run lasts.
C18_OneRunAtATime ==
    RunInProgress
        => /\ btnDisabled
           /\ btnText # IdleLabel
           /\ ~ENABLED Click

C18_Witness ==
    /\ pc = "awaitAllSettled"
    /\ Len(allCandidates) = 2
    /\ analyzedCount = 1
    /\ btnText = AnalyzingLabel(1, 2)
    /\ btnDisabled

\* the handler has returned from a run
RunEnded == pc \in {"noCandidates", "globalError", "completed"}

\* C19: when every request is answered in the end, every run that enters
\* the loading state ends and enables the run control again, whichever way
\* it ends (no candidates, market request failed, all skipped, some or all
\* failed, trades found); the control is never disabled once the run has
\* ended.
C19_RunEndsAndEnables ==
    /\ [](~RunInProgress => (~btnDisabled /\ btnText = IdleLabel))
    /\ (btnDisabled ~> (RunEnded /\ ~btnDisabled))

C19_Witness ==
    /\ pc = "completed"
    /\ Len(allCandidates) = 2
    /\ \A i \in DOMAIN results : IsFailed(results[i])
    /\ ~btnDisabled
    /\ btnText = IdleLabel

\* the settings as saveSettings persisted them when the run was triggered
TriggerThreshold == ParseFloatStr(localStorage.momentumThreshold)

TriggerRiskAmount == ParseFloatStr(localStorage.riskAmount)

TriggerRrRatio == ParseFloatStr(localStorage.rrRatio)

\* C20: the threshold, riskAmount and rrRatio a run uses are the values the
\* settings held when the run was triggered (those saveSettings persisted):
\* typing into the inputs while the run is in progress, the time the market
\* request is pending included, changes neither the run's candidates nor
\* its trades.
C20_SettingsAsOfTrigger ==
    pc \in {"awaitAllSettled", "noCandidates", "completed"} =>
        /\ threshold = TriggerThreshold
        /\ allCandidates = AllCandidates(topCryptos, TriggerThreshold)
        /\ \A i \in DOMAIN tasks :
               /\ tasks[i].riskAmount = TriggerRiskAmount
               /\ tasks[i].rrRatio = TriggerRrRatio
               /\ IsPlan(results[i])
                      => results[i].value
                            = TradeOrNull(allCandidates[i].coin,
                                          allCandidates[i].direction,
                                          tasks[i].analysis,
                                          TriggerRiskAmount, TriggerRrRatio)

=============================================================================
